---- MODULE Spec2Model ----
(***************************************************************************)
(* Model of kexlinux: the mount resource manager (blockdev.rs, Mount),     *)
(* the filesystem prober (blockdev.rs, FS), device discovery               *)
(* (kexlinux.rs, KexLinux::from_device_list) and the configuration         *)
(* resolver (kexlinux.rs, SyslinuxConf::from_conf).                        *)
(***************************************************************************)
EXTENDS Integers, Sequences, FiniteSets, TLC

VARIABLES
    pc,          \* position of the running function
    devs,        \* from_device_list: the input device sequence
    i,           \* get_filesystems: index of the next device to probe
    filesystems, \* from_device_list: Vec<FS>
    j,           \* from_device_list: index of the next candidate of the loop
    mnt,         \* the live Mount value (NoMount when none exists)
    result,      \* value returned by from_device_list
    log,         \* external commands and file-system effects, in order
    osMounted,   \* mount paths this program mounted that are still mounted
    tmpdirs,     \* temporary directories that exist on disk
    nextDir,     \* next fresh temporary directory name
    ret,         \* value returned by the last call of Mount::umount
    ncalls,      \* number of explicit calls of Mount::umount so far
    conf,        \* from_conf: the parsed syslinux_conf::SyslinuxConf
    sconf,       \* from_conf: the Result<SyslinuxConf, KexLinuxError>
    boot_label,  \* boot: the label it is called with
    exit,        \* main: how the process ended
    args,        \* main: the parsed command line
    catalog,     \* BlockDevs: what the catalog of block devices holds, in order
    rd_pos,      \* BlockDevs: index of the next entry of read_dir
    yielded,     \* BlockDevs: the devices next() has returned so far
    target,      \* from_dev_path: what the metadata of the named path gives
    probeOut,    \* get_filesystems: what blkid printed, per probe
    sys_node,    \* from_sys_path: the directory of /sys/class/block it reads
    built        \* from_sys_path: the Result<BlockDev, BlockDevError>

vars == <<pc, devs, i, filesystems, j, mnt, result, log, osMounted, tmpdirs,
          nextDir, ret, ncalls, conf, sconf, boot_label, exit, args, catalog,
          rd_pos, yielded, target, probeOut, sys_node, built>>

\* the variables of one part of the program, left alone by the others
discVars == <<devs, i, filesystems, j, mnt, result, osMounted, tmpdirs,
              nextDir, ret, ncalls>>
confVars == <<conf, sconf>>
bootVars == <<boot_label, exit, args>>
enumVars == <<catalog, rd_pos, yielded, target>>
sysVars == <<sys_node, built>>
xvars == <<boot_label, exit, args, catalog, rd_pos, yielded, target, probeOut,
           sys_node, built>>

\* the values these have while their part of the program is not running
XIdle ==
    /\ boot_label = "none"
    /\ exit = "none"
    /\ args = "none"
    /\ catalog = <<>>
    /\ rd_pos = 1
    /\ yielded = <<>>
    /\ target = "none"
    /\ probeOut = <<>>
    /\ sys_node = "none"
    /\ built = "none"

\* ------------------------------------------------------------------ bounds
MaxDevs == 3
MaxUmountCalls == 2
MaxLabels == 2

\* ------------------------------------------------------------ device names
\* A name is a sequence of characters.
N_sda == <<"s", "d", "a">>
N_sda2 == <<"s", "d", "a", "2">>
N_sda10 == <<"s", "d", "a", "1", "0">>
N_sdb == <<"s", "d", "b">>
N_sdb1 == <<"s", "d", "b", "1">>

Digits == {"0", "1", "2", "3", "4", "5", "6", "7", "8", "9"}

\* char::to_digit(10)
to_digit(c) ==
    CASE c = "0" -> 0 [] c = "1" -> 1 [] c = "2" -> 2 [] c = "3" -> 3
      [] c = "4" -> 4 [] c = "5" -> 5 [] c = "6" -> 6 [] c = "7" -> 7
      [] c = "8" -> 8 [] c = "9" -> 9 [] OTHER -> -1

\* code point of a character (the order of char::cmp)
char_code(c) ==
    CASE c \in Digits -> 48 + to_digit(c)
      [] c = "a" -> 97 [] c = "b" -> 98 [] c = "d" -> 100 [] c = "s" -> 115
      [] OTHER -> 0

\* Ordering values: -1 = Less, 0 = Equal, 1 = Greater
cmp_int(a, b) == IF a < b THEN -1 ELSE IF a > b THEN 1 ELSE 0

IsDigitAt(s, k) == k <= Len(s) /\ s[k] \in Digits

\* natord: left-aligned (fractional) digit run, entered after the first pair
\* of digits compared equal; k is the index of the next pair.  Returns
\* <<ordering, next index>>; ordering 0 means the runs ended together.
RECURSIVE digits_left(_, _, _)
digits_left(a, b, k) ==
    IF IsDigitAt(a, k) /\ IsDigitAt(b, k)
    THEN IF cmp_int(to_digit(a[k]), to_digit(b[k])) # 0
         THEN <<cmp_int(to_digit(a[k]), to_digit(b[k])), k>>
         ELSE digits_left(a, b, k + 1)
    ELSE IF IsDigitAt(a, k) THEN <<1, k>>
    ELSE IF IsDigitAt(b, k) THEN <<-1, k>>
    ELSE <<0, k>>

\* natord: right-aligned digit run; lastcmp is the ordering of the first
\* differing pair of digits, used only when both runs have the same length.
RECURSIVE digits_right(_, _, _, _)
digits_right(a, b, k, lastcmp) ==
    IF IsDigitAt(a, k) /\ IsDigitAt(b, k)
    THEN digits_right(a, b, k + 1,
                      IF lastcmp = 0
                      THEN cmp_int(to_digit(a[k]), to_digit(b[k]))
                      ELSE lastcmp)
    ELSE IF IsDigitAt(a, k) THEN <<1, k>>
    ELSE IF IsDigitAt(b, k) THEN <<-1, k>>
    ELSE <<lastcmp, k>>

\* natord::compare_iter from position k of both names (the names of the
\* model hold no whitespace, so nothing is skipped)
RECURSIVE compare_from(_, _, _)
compare_from(a, b, k) ==
    IF k > Len(a) /\ k > Len(b) THEN 0
    ELSE IF k > Len(a) THEN -1
    ELSE IF k > Len(b) THEN 1
    ELSE IF a[k] \in Digits /\ b[k] \in Digits
    THEN LET run == IF to_digit(a[k]) = 0 \/ to_digit(b[k]) = 0
                    THEN IF cmp_int(to_digit(a[k]), to_digit(b[k])) # 0
                         THEN <<cmp_int(to_digit(a[k]), to_digit(b[k])), k>>
                         ELSE digits_left(a, b, k + 1)
                    ELSE digits_right(a, b, k + 1,
                                      cmp_int(to_digit(a[k]), to_digit(b[k])))
         IN  IF run[1] # 0 THEN run[1] ELSE compare_from(a, b, run[2])
    ELSE IF cmp_int(char_code(a[k]), char_code(b[k])) # 0
         THEN cmp_int(char_code(a[k]), char_code(b[k]))
         ELSE compare_from(a, b, k + 1)

\* plain code-point order of two names (what str::cmp would give)
RECURSIVE ascii_from(_, _, _)
ascii_from(a, b, k) ==
    IF k > Len(a) /\ k > Len(b) THEN 0
    ELSE IF k > Len(a) THEN -1
    ELSE IF k > Len(b) THEN 1
    ELSE IF cmp_int(char_code(a[k]), char_code(b[k])) # 0
         THEN cmp_int(char_code(a[k]), char_code(b[k]))
         ELSE ascii_from(a, b, k + 1)

ascii_compare(a, b) == ascii_from(a, b, 1)

\* natord::compare(&a.dev.name, &b.dev.name)
natord_compare(a, b) == compare_from(a, b, 1)

\* Vec::sort_by is a stable sort: x goes after every element that does not
\* compare Greater than it.
RECURSIVE insert_stable(_, _)
insert_stable(sorted, x) ==
    IF sorted = <<>> THEN <<x>>
    ELSE IF natord_compare(Head(sorted).dev.name, x.dev.name) = 1
         THEN <<x>> \o sorted
         ELSE <<Head(sorted)>> \o insert_stable(Tail(sorted), x)

RECURSIVE sort_by(_)
sort_by(s) ==
    IF s = <<>> THEN <<>>
    ELSE insert_stable(sort_by(SubSeq(s, 1, Len(s) - 1)), s[Len(s)])

\* ------------------------------------------------------------------ devices
\* A BlockDev: id stands for its path and major/minor pair (its identity),
\* partitions is the Vec of child partitions.
Shape(name, has_holders, partitions) ==
    [name |-> name, has_holders |-> has_holders, partitions |-> partitions]

LeafPart == Shape(N_sdb1, FALSE, <<>>)

\* the devices the model draws its inputs from: three leaves whose natural
\* and code-point orders differ, a disk with a partition, a device with a
\* holder, and a disk with both
DevShapes ==
    {Shape(N_sda, FALSE, <<>>), Shape(N_sda2, FALSE, <<>>),
     Shape(N_sda10, FALSE, <<>>), Shape(N_sdb, FALSE, <<LeafPart>>),
     Shape(N_sdb1, TRUE, <<>>), Shape(N_sdb, TRUE, <<LeafPart>>)}

BlockDev(id, shape) ==
    [id |-> id, name |-> shape.name, has_holders |-> shape.has_holders,
     partitions |-> shape.partitions]

\* FS{ dev, fs_type }
FS(dev, fs_type) == [dev |-> dev, fs_type |-> fs_type]

\* ------------------------------------------------------------------- paths
NoPath == [kind |-> "none", n |-> 0]
\* temp_dir.path().join("mount") of temporary directory d
TmpMountPath(d) == [kind |-> "tmp", n |-> d]
\* existing_mount.file of the mount-table entry found for a device
ExistingPath(dev) == [kind |-> "ext", n |-> dev.id]

\* one entry of the log
Event(cmd, dev, path, res) == [cmd |-> cmd, dev |-> dev, path |-> path, res |-> res]

\* outcome of std::process::Command::output() as call_mount and
\* check_kexec_output see it: "ok" = ran and exited 0, "fail" = ran and
\* exited non-zero or by signal, "spawn_err" = the io::Error of output()
CmdOutcomes == {"ok", "fail", "spawn_err"}

\* Mount::call_mount
call_mount(outcome) == IF outcome = "ok" THEN "Ok" ELSE "Err"

\* ------------------------------------------------------------------- Mount
\* temp_dir = 0 is None, temp_dir = d > 0 is Some(TempDir d)
NoMount == [exists |-> FALSE, temp_dir |-> 0, mount_path |-> NoPath, dev |-> 0]

\* a Mount that owns temporary directory d (a plausible slip of the reuse arm)
existing_mount_owned(fs) ==
    [exists |-> TRUE, temp_dir |-> nextDir, mount_path |-> ExistingPath(fs.dev),
     dev |-> fs.dev.id]

\* Mount::mount, arm Ok(Some(existing_mount))
existing_mount(fs) ==
    [exists |-> TRUE, temp_dir |-> 0, mount_path |-> ExistingPath(fs.dev),
     dev |-> fs.dev.id]

\* a new Mount that forgets its temporary directory (a plausible slip)
new_mount_unowned(fs, d) ==
    [exists |-> TRUE, temp_dir |-> 0, mount_path |-> TmpMountPath(d),
     dev |-> fs.dev.id]

\* Mount::mount, the Ok(Mount{..}) of the arm that mounted
new_mount(fs, d) ==
    [exists |-> TRUE, temp_dir |-> d, mount_path |-> TmpMountPath(d),
     dev |-> fs.dev.id]

\* what mnt::get_mount and the steps of the second arm can do
MountOutcomes ==
    {"existing", "tempdir_err", "create_dir_err", "spawn_err", "fail", "ok"}

\* an early return that leaves the temporary directory behind
forget_temp_dir(dirs, d) == dirs

\* Mount::mount, an early return by try! after TempDir::new: the local
\* temp_dir goes out of scope and its directory is removed
drop_temp_dir(dirs, d) == dirs \ {d}

\* Mount::mount(&fs): the whole call, for one outcome of its external steps.
\* pcOk / pcErr are where the caller continues on Ok(Mount) / Err.
mount(fs, outcome, pcOk, pcErr) ==
    LET d == nextDir
        p == TmpMountPath(d)
        found == Event("get_mount", fs.dev.id, ExistingPath(fs.dev), "found")
        absent == Event("get_mount", fs.dev.id, NoPath, "absent")
        mk == Event("mkdtemp", fs.dev.id, p, "ok")
        rm == Event("rmdir", fs.dev.id, p, "ok")
    IN
    CASE outcome = "existing" ->
            /\ mnt' = existing_mount(fs)
            /\ log' = Append(log, found)
            /\ pc' = pcOk
            /\ UNCHANGED <<osMounted, tmpdirs, nextDir>>
      [] outcome = "tempdir_err" ->
            /\ log' = Append(log, absent)
            /\ pc' = pcErr
            /\ UNCHANGED <<mnt, osMounted, tmpdirs, nextDir>>
      [] outcome = "create_dir_err" ->
            \* try!(create_dir) returns; the local TempDir is dropped
            /\ tmpdirs' = drop_temp_dir(tmpdirs \cup {d}, d)
            /\ log' = log \o <<absent, mk>>
                          \o (IF d \in drop_temp_dir(tmpdirs \cup {d}, d)
                              THEN <<>> ELSE <<rm>>)
            /\ nextDir' = nextDir + 1
            /\ pc' = pcErr
            /\ UNCHANGED <<mnt, osMounted>>
      [] outcome \in {"spawn_err", "fail"} ->
            \* try!(call_mount) returns; the local TempDir is dropped
            /\ tmpdirs' = drop_temp_dir(tmpdirs \cup {d}, d)
            /\ log' = log \o <<absent, mk,
                               Event("mount", fs.dev.id, p, call_mount(outcome))>>
                          \o (IF d \in drop_temp_dir(tmpdirs \cup {d}, d)
                              THEN <<>> ELSE <<rm>>)
            /\ nextDir' = nextDir + 1
            /\ pc' = pcErr
            /\ UNCHANGED <<mnt, osMounted>>
      [] outcome = "ok" ->
            /\ log' = log \o <<absent, mk, Event("mount", fs.dev.id, p, call_mount(outcome))>>
            /\ nextDir' = nextDir + 1
            /\ tmpdirs' = tmpdirs \cup {d}
            /\ osMounted' = osMounted \cup {p}
            /\ mnt' = new_mount(fs, d)
            /\ pc' = pcOk

\* leaving temp_dir in place (a plausible slip of umount)
keep_temp_dir(m) == m

\* std::mem::replace(&mut self.temp_dir, None)
take_temp_dir(m) == [m EXCEPT !.temp_dir = 0]

\* removing the directory whatever umount said (a plausible slip of umount)
dirs_after_umount_always(dirs, d, outcome) == dirs \ {d}

\* umount, what happens to the taken TempDir: dropped (removed) on Ok,
\* into_path() (kept) on Err
dirs_after_umount(dirs, d, outcome) ==
    IF call_mount(outcome) = "Ok" THEN dirs \ {d} ELSE dirs

\* Mount::umount(&mut self) applied to Mount m, for one outcome of the umount
\* utility; sets mnt' to after(m') where after is the identity for an
\* explicit call and the end of the value for Drop.
umount(m, outcome, drops) ==
    LET m2 == IF m.temp_dir # 0 THEN take_temp_dir(m) ELSE m
    IN
    /\ mnt' = IF drops THEN NoMount ELSE m2
    /\ IF m.temp_dir # 0
       THEN /\ ret' = call_mount(outcome)
            /\ tmpdirs' = dirs_after_umount(tmpdirs, m.temp_dir, outcome)
            /\ osMounted' = IF outcome = "ok" THEN osMounted \ {m.mount_path}
                            ELSE osMounted
            /\ log' = log \o <<Event("umount", m.dev, m.mount_path, call_mount(outcome))>>
                          \o (IF dirs_after_umount(tmpdirs, m.temp_dir, outcome)
                                   # tmpdirs
                              THEN <<Event("rmdir", m.dev, m.mount_path, "ok")>>
                              ELSE <<>>)
       ELSE /\ ret' = "Ok"
            /\ UNCHANGED <<tmpdirs, osMounted, log>>

\* the outcomes of the umount utility that umount can see: none is consulted
\* when there is no owned temporary directory
UmountOutcomes(m) == IF m.temp_dir # 0 THEN CmdOutcomes ELSE {"ok"}

\* value of from_device_list: none yet, Ok(KexLinux) read at root on dev, Err
NoResult == [status |-> "none", root |-> NoPath, dev |-> 0]

\* ------------------------------------------------- Mount life cycle (SpecMount)
\* One FS is mounted, released explicitly any number of times, then dropped.
EligibleShapes == {s \in DevShapes : ~s.has_holders /\ s.partitions = <<>>}

InitMount ==
    /\ pc = "m_start"
    /\ devs = <<>>
    /\ i = 1
    /\ \E id \in 1..MaxDevs, s \in EligibleShapes :
           filesystems = <<FS(BlockDev(id, s), "ext4")>>
    /\ j = 1
    /\ mnt = NoMount
    /\ result = NoResult
    /\ log = <<>>
    /\ osMounted = {}
    /\ tmpdirs = {}
    /\ nextDir = 1
    /\ ret = "none"
    /\ ncalls = 0
    /\ conf = "none"
    /\ sconf = "none"
    /\ XIdle

\* let m = Mount::mount(&fs)
MMount ==
    /\ pc = "m_start"
    /\ \E o \in MountOutcomes : mount(filesystems[1], o, "m_live", "m_failed")
    /\ UNCHANGED <<devs, i, filesystems, j, result, ret, ncalls, conf, sconf>>
    /\ UNCHANGED xvars

\* m.umount()
MUmount ==
    /\ pc = "m_live"
    /\ ncalls < MaxUmountCalls
    /\ \E o \in UmountOutcomes(mnt) : umount(mnt, o, FALSE)
    /\ ncalls' = ncalls + 1
    /\ UNCHANGED <<pc, devs, i, filesystems, j, result, nextDir, conf, sconf>>
    /\ UNCHANGED xvars

\* m goes out of scope: Drop for Mount
MDrop ==
    /\ pc = "m_live"
    /\ \E o \in UmountOutcomes(mnt) : umount(mnt, o, TRUE)
    /\ pc' = "m_dropped"
    /\ UNCHANGED <<devs, i, filesystems, j, result, nextDir, ncalls, conf, sconf>>
    /\ UNCHANGED xvars

NextMount == MMount \/ MUmount \/ MDrop

SpecMount == InitMount /\ [][NextMount]_vars

\* ------------------------------------------------------- reading the log
Events(cmd) == {k \in 1..Len(log) : log[k].cmd = cmd}
EventsOn(cmd, path) == {k \in Events(cmd) : log[k].path = path}

\* the Mount of this run reused an existing mount / mounted by itself
Reused == \E k \in Events("get_mount") : log[k].res = "found"
Created == \E k \in Events("mount") : log[k].res = "Ok"

\* ------------------------------------------------------------ claims C1-C4
\* C1: a Mount made from a device found in the OS mount table owns no
\* temporary directory, the mount utility is never invoked for it, and every
\* release of it (explicit, repeated, Drop) returns Ok without ever invoking
\* the umount utility.
C1_MountReuse ==
    Reused =>
        /\ Events("mount") = {}
        /\ Events("umount") = {}
        /\ Events("mkdtemp") = {}
        /\ ret # "Err"
        /\ mnt.exists => mnt.temp_dir = 0

C1_Witness ==
    /\ pc = "m_dropped"
    /\ Reused
    /\ ncalls = 2
    /\ ret = "Ok"

\* C2: for a Mount that mounted by itself, once it has gone out of scope the
\* umount utility has been invoked exactly once on its mount path, whatever
\* the caller did before and whatever the utility answered; it is never
\* invoked more than once.
C2_ReleaseExactlyOnce ==
    /\ \A k \in Events("mount") :
           Cardinality(EventsOn("umount", log[k].path)) <= 1
    /\ (pc = "m_dropped" /\ Created) =>
           \A k \in Events("mount") :
               Cardinality(EventsOn("umount", log[k].path)) = 1

C2_Witness ==
    /\ pc = "m_dropped"
    /\ Created
    /\ ncalls = 2
    /\ \E k \in Events("umount") : log[k].res = "Err"

\* C3: a second (or later) call of umount returns Ok, runs no external
\* command and removes no directory, for a reused and for a new Mount and
\* whatever the first call returned.
C3_ReleaseIdempotent ==
    [][(ncalls >= 1 /\ ncalls' = ncalls + 1) =>
           (ret' = "Ok" /\ log' = log /\ tmpdirs' = tmpdirs
            /\ osMounted' = osMounted)]_vars

C3_Witness ==
    /\ pc = "m_live"
    /\ ncalls = 2
    /\ Created
    /\ ret = "Ok"
    /\ \E k \in Events("umount") : log[k].res = "Err"

\* C4: for a Mount that owns a temporary directory, release removes the
\* directory iff the umount utility succeeded: on success the directory is
\* removed and Ok returned; on failure the directory stays, the error is
\* returned, and no later release removes it.
C4_DirRemovedIffUmountOk ==
    /\ [](\A k \in Events("umount") :
              (log[k].path.n \in tmpdirs) <=> (log[k].res = "Err"))
    /\ [][\A k \in Events("umount")' : k \notin Events("umount") =>
              /\ log'[k].path.n \in tmpdirs
              /\ log'[k].res = "Ok" =>
                     (ret' = "Ok" /\ log'[k].path.n \notin tmpdirs')
              /\ log'[k].res = "Err" =>
                     (ret' = "Err" /\ log'[k].path.n \in tmpdirs')]_vars

C4_Witness ==
    /\ pc = "m_dropped"
    /\ ncalls = 1
    /\ \E k \in Events("umount") :
           log[k].res = "Err" /\ log[k].path.n \in tmpdirs

\* ------------------------------------------------------------- FS prober
\* what blkid can give: its exit, and the USAGE and TYPE values of its
\* KEY=value output ("none" = the key is absent)
BlkidOutputs ==
    [status : CmdOutcomes, usage : {"none", "filesystem", "swap"},
     fs_type : {"none", "ext4"}]

\* a classification that takes any usage class for a filesystem
parse_any_usage(out) ==
    IF out.usage = "none" THEN "Err"
    ELSE IF out.fs_type = "none" THEN "Err"
    ELSE out.fs_type

\* FS::parse_blkid_output: Err, or the filesystem type
parse_blkid_output(out) ==
    IF out.usage = "none" THEN "Err"
    ELSE IF out.usage # "filesystem" THEN "Err"
    ELSE IF out.fs_type = "none" THEN "Err"
    ELSE out.fs_type

\* FS::get_fs_type
get_fs_type(out) ==
    IF out.status = "ok" THEN parse_blkid_output(out) ELSE "Err"

\* checking only the holders (a plausible slip of from_dev)
skips_holders_only(dev) == dev.has_holders

\* FS::from_dev, the two early returns that come before any command
skips(dev) == dev.has_holders \/ dev.partitions # <<>>

\* breaking out of the loop (a plausible slip of the loop's Err arms)
break_from(k, n) == n + 1

\* from_device_list, `Err(_) => ()  // continue`: the next index of the loop
continue_from(k, n) == k + 1

\* ---------------------------------------- device discovery (SpecDisc)
RECURSIVE DevSeqs(_)
DevSeqs(n) ==
    IF n = 0 THEN {<<>>}
    ELSE LET shorter == DevSeqs(n - 1)
         IN  shorter \cup
             {Append(s, BlockDev(n, sh)) : s \in {t \in shorter : Len(t) = n - 1},
                                           sh \in DevShapes}

InitDisc ==
    /\ pc = "probe"
    /\ devs \in DevSeqs(MaxDevs)
    /\ i = 1
    /\ filesystems = <<>>
    /\ j = 1
    /\ mnt = NoMount
    /\ result = NoResult
    /\ log = <<>>
    /\ osMounted = {}
    /\ tmpdirs = {}
    /\ nextDir = 1
    /\ ret = "none"
    /\ ncalls = 0
    /\ conf = "none"
    /\ sconf = "none"
    /\ XIdle

\* get_filesystems, FS::from_dev(dev) returning Err before any command
from_dev_skip ==
    /\ pc = "probe"
    /\ i <= Len(devs)
    /\ skips(devs[i])
    /\ i' = i + 1
    /\ UNCHANGED <<pc, devs, filesystems, j, mnt, result, log, osMounted,
                   tmpdirs, nextDir, ret, ncalls, conf, sconf>>
    /\ UNCHANGED xvars

\* get_filesystems, FS::from_dev(dev) running blkid; filter_map keeps the Ok
from_dev_probe ==
    /\ pc = "probe"
    /\ i <= Len(devs)
    /\ ~skips(devs[i])
    /\ \E out \in BlkidOutputs :
          LET t == get_fs_type(out)
          IN  /\ log' = Append(log, Event("blkid", devs[i].id, NoPath,
                                          IF t = "Err" THEN "Err" ELSE "Ok"))
              /\ filesystems' = IF t = "Err" THEN filesystems
                                ELSE Append(filesystems, FS(devs[i], t))
    /\ i' = i + 1
    /\ UNCHANGED <<pc, devs, j, mnt, result, osMounted, tmpdirs, nextDir,
                   ret, ncalls, conf, sconf>>
    /\ UNCHANGED xvars

\* from_device_list: filesystems.sort_by(natord::compare on dev.name)
sort_filesystems ==
    /\ pc = "probe"
    /\ i > Len(devs)
    /\ filesystems' = sort_by(filesystems)
    /\ pc' = "loop"
    /\ UNCHANGED <<devs, i, j, mnt, result, log, osMounted, tmpdirs, nextDir,
                   ret, ncalls, conf, sconf>>
    /\ UNCHANGED xvars

\* from_device_list: match blockdev::Mount::mount(&fs)
loop_mount ==
    /\ pc = "loop"
    /\ j <= Len(filesystems)
    /\ \E o \in MountOutcomes : mount(filesystems[j], o, "resolve", "loop")
    /\ j' = IF pc' = "loop" THEN continue_from(j, Len(filesystems)) ELSE j
    /\ UNCHANGED <<devs, i, filesystems, result, ret, ncalls, conf, sconf>>
    /\ UNCHANGED xvars

\* KexLinux::from_local(root): Ok, or the Err of Reader::from_local (no
\* configuration found), of reader.read() or of SyslinuxConf::from_conf
FromLocalOutcomes == {"ok", "reader_err", "read_err", "conf_err"}

\* from_device_list: match KexLinux::from_local(fs.path().clone())
loop_from_local ==
    /\ pc = "resolve"
    /\ \E r \in FromLocalOutcomes :
          /\ log' = Append(log, Event("from_local", mnt.dev, mnt.mount_path,
                                      IF r = "ok" THEN "Ok" ELSE "Err"))
          /\ IF r = "ok"
             THEN /\ result' = [status |-> "Ok", root |-> mnt.mount_path,
                                dev |-> mnt.dev]
                  /\ pc' = "drop_ret"
             ELSE /\ result' = result
                  /\ pc' = "drop_next"
    /\ UNCHANGED <<devs, i, filesystems, j, mnt, osMounted, tmpdirs, nextDir,
                   ret, ncalls, conf, sconf>>
    /\ UNCHANGED xvars

\* from_device_list: the Mount goes out of scope at the end of the arm
loop_drop_next ==
    /\ pc = "drop_next"
    /\ \E o \in UmountOutcomes(mnt) : umount(mnt, o, TRUE)
    /\ j' = continue_from(j, Len(filesystems))
    /\ pc' = "loop"
    /\ UNCHANGED <<devs, i, filesystems, result, nextDir, ncalls, conf, sconf>>
    /\ UNCHANGED xvars

\* from_device_list: `return Ok(kexlinux)` drops the Mount on the way out
loop_drop_return ==
    /\ pc = "drop_ret"
    /\ \E o \in UmountOutcomes(mnt) : umount(mnt, o, TRUE)
    /\ pc' = "done"
    /\ UNCHANGED <<devs, i, filesystems, j, result, nextDir, ncalls, conf, sconf>>
    /\ UNCHANGED xvars

\* from_device_list: the loop ended, Err(KexLinuxError{})
not_found ==
    /\ pc = "loop"
    /\ j > Len(filesystems)
    /\ result' = [status |-> "Err", root |-> NoPath, dev |-> 0]
    /\ pc' = "done"
    /\ UNCHANGED <<devs, i, filesystems, j, mnt, log, osMounted, tmpdirs,
                   nextDir, ret, ncalls, conf, sconf>>
    /\ UNCHANGED xvars

NextDisc ==
    \/ from_dev_skip
    \/ from_dev_probe
    \/ sort_filesystems
    \/ loop_mount
    \/ loop_from_local
    \/ loop_drop_next
    \/ loop_drop_return
    \/ not_found

SpecDisc == InitDisc /\ [][NextDisc]_vars

\* ------------------------------------------------- reading a discovery run
InLoop == pc \in {"loop", "resolve", "drop_next", "drop_ret", "done"}

\* the devices on which Mount::mount was called, in order (every call starts
\* with the mount-table lookup)
MountTried ==
    LET calls == SelectSeq(log, LAMBDA e : e.cmd = "get_mount")
    IN  [k \in 1..Len(calls) |-> calls[k].dev]

\* ids of the candidates, in the order of the Vec
CandIds == [k \in 1..Len(filesystems) |-> filesystems[k].dev.id]

ProbedOk(id) ==
    \E k \in 1..Len(log) :
        log[k].cmd = "blkid" /\ log[k].dev = id /\ log[k].res = "Ok"
Tried(id) ==
    \E k \in 1..Len(log) : log[k].cmd = "get_mount" /\ log[k].dev = id
Usable(id) ==
    /\ \E k \in 1..Len(log) :
           /\ log[k].dev = id
           /\ \/ log[k].cmd = "get_mount" /\ log[k].res = "found"
              \/ log[k].cmd = "mount" /\ log[k].res = "Ok"
    /\ \E k \in 1..Len(log) :
           log[k].cmd = "from_local" /\ log[k].dev = id /\ log[k].res = "Ok"

\* events of the mount loop (everything but the probes)
LoopEvents == {k \in 1..Len(log) : log[k].cmd # "blkid"}

\* the data model's eligibility: no holders and no partitions
MountEligible(dev) == dev.has_holders = FALSE /\ dev.partitions = <<>>

\* natural order stated on the parsed name: the letters, then the number
\* that follows them (-1 when there is none)
RECURSIVE PrefixLen(_)
PrefixLen(name) ==
    IF name = <<>> \/ Head(name) \in Digits THEN 0
    ELSE 1 + PrefixLen(Tail(name))

RECURSIVE DecimalValue(_)
DecimalValue(ds) ==
    IF ds = <<>> THEN 0
    ELSE 10 * DecimalValue(SubSeq(ds, 1, Len(ds) - 1)) + to_digit(ds[Len(ds)])

Letters(name) == SubSeq(name, 1, PrefixLen(name))
Number(name) ==
    IF PrefixLen(name) = Len(name) THEN -1
    ELSE DecimalValue(SubSeq(name, PrefixLen(name) + 1, Len(name)))

AllNames == {sh.name : sh \in DevShapes}
NameLetters == [nm \in AllNames |-> Letters(nm)]
NameNumber == [nm \in AllNames |-> Number(nm)]
LettersLess == [a \in AllNames |-> [b \in AllNames |->
                   ascii_compare(NameLetters[a], NameLetters[b]) = -1]]

NaturalLeq(a, b) ==
    \/ LettersLess[a][b]
    \/ NameLetters[a] = NameLetters[b] /\ NameNumber[a] <= NameNumber[b]

\* ------------------------------------------------------------ claims C5-C9
\* C5: in device discovery no configuration read uses a mount path whose
\* Mount has been released, and the KexLinux returned for the successful
\* candidate refers to a root that is still mounted when it is returned.
C5_RootStillMountedOnReturn ==
    /\ \A k \in Events("from_local") :
           \A u \in EventsOn("umount", log[k].path) : k < u
    /\ (pc = "done" /\ result.status = "Ok") =>
           /\ EventsOn("umount", result.root) = {}
           /\ result.root.kind = "tmp" =>
                  (result.root \in osMounted /\ result.root.n \in tmpdirs)

\* C6: every device handed to blkid or to mount has no holders and no
\* partitions; a device with a holder or a partition causes no external
\* command at all and is never among the mount candidates.
C6_ProbeEligibility ==
    /\ \A k \in 1..Len(log) : MountEligible(devs[log[k].dev])
    /\ \A k \in 1..Len(filesystems) : MountEligible(filesystems[k].dev)

C6_Witness ==
    /\ pc = "done"
    /\ \E d \in 1..Len(devs) : devs[d].has_holders /\ devs[d].partitions = <<>>
    /\ \E d \in 1..Len(devs) : ~devs[d].has_holders /\ devs[d].partitions # <<>>
    /\ Events("blkid") # {}
    /\ Events("mount") # {}

\* C7: from_device_list returns the configuration of the first candidate, in
\* trial order, whose mount and whose resolution both succeed; every earlier
\* candidate was tried and failed; no later candidate is mounted; and the
\* call fails iff every candidate was tried and failed.
C7_FirstUsableCandidate ==
    pc = "done" =>
        LET ids == CandIds
            n == Len(filesystems)
        IN
        /\ result.status \in {"Ok", "Err"}
        /\ result.status = "Err" <=>
               \A k \in 1..n : Tried(ids[k]) /\ ~Usable(ids[k])
        /\ result.status = "Ok" =>
               \E k \in 1..n :
                   /\ result.dev = ids[k]
                   /\ Usable(ids[k])
                   /\ \A m \in 1..(k - 1) : Tried(ids[m]) /\ ~Usable(ids[m])
                   /\ \A m \in (k + 1)..n : ~Tried(ids[m])

C7_Witness ==
    /\ pc = "done"
    /\ result.status = "Ok"
    /\ Len(filesystems) = 3
    /\ result.dev = CandIds[2]
    /\ \E k \in Events("from_local") : log[k].dev = CandIds[1] /\ log[k].res = "Err"

\* C8 as claimed: each candidate is processed to completion (probe, mount,
\* resolve-or-release) before any step of the next one: the steps of one
\* device are never interrupted by a step of another device.
C8_NoOverlapFromProbe ==
    \A a \in 1..Len(log), b \in 1..Len(log), c \in 1..Len(log) :
        (a < b /\ b < c /\ log[a].dev = log[c].dev) => log[b].dev = log[a].dev

\* C8 as amended: all probes run first, in input order, before any mount
\* step; from then on each candidate's mount, resolve and release are
\* completed, in trial order, before any step of the next candidate, and a
\* mount made for a candidate is released before the next candidate's steps.
C8_NoOverlapAfterProbing ==
    LET n == Len(log)
        ids == CandIds
        \* position of a device in the trial order
        pos(d) == CHOOSE k \in 1..Len(ids) : ids[k] = d
        probe(k) == log[k].cmd = "blkid"
    IN
    /\ \A k \in 1..(n - 1) :
           /\ probe(k + 1) => (probe(k) /\ log[k].dev < log[k + 1].dev)
           /\ (~probe(k) /\ log[k].dev # log[k + 1].dev) =>
                  /\ InLoop
                  /\ pos(log[k].dev) < pos(log[k + 1].dev)
                  /\ \A m \in 1..k :
                         (log[m].cmd = "mount" /\ log[m].res = "Ok") =>
                             \E u \in (m + 1)..k :
                                 /\ log[u].cmd = "umount"
                                 /\ log[u].path = log[m].path
    /\ \A k \in 1..n : ~probe(k) => pc # "probe"

C8_Witness ==
    /\ pc = "done"
    /\ Len(filesystems) >= 2
    /\ \E m \in Events("mount"), k \in Events("mount") :
           /\ log[m].res = "Ok" /\ log[k].res = "Ok"
           /\ log[m].dev = CandIds[1] /\ log[k].dev = CandIds[2]
    /\ devs[CandIds[1]].id > devs[CandIds[2]].id

\* the successfully probed devices, in input order
Probed == SelectSeq(devs, LAMBDA d : ProbedOk(d.id))

\* C9 as claimed: the sequence of devices on which mount is attempted is
\* exactly the successfully probed subset in stable natural order.
C9_MountTriedIsWholeOrder ==
    pc = "done" => MountTried = CandIds

\* C9 as amended: the candidates are the successfully probed subset of the
\* input in stable natural order of name (equal names keep input order), and
\* the sequence of devices on which mount is attempted is a prefix of it: the
\* whole of it when no candidate is usable, up to the first usable one
\* otherwise.
C9_TrialOrder ==
    InLoop =>
        LET probed == Probed
            tried == MountTried
            ids == CandIds
            n == Len(filesystems)
        IN
        /\ n = Len(probed)
        /\ \A k \in 1..Len(probed) :
               \E m \in 1..n : filesystems[m].dev = probed[k]
        /\ \A p \in 1..(n - 1) :
               /\ NaturalLeq(filesystems[p].dev.name, filesystems[p + 1].dev.name)
               /\ filesystems[p].dev.name = filesystems[p + 1].dev.name =>
                      ids[p] < ids[p + 1]
        /\ Len(tried) <= n
        /\ tried = SubSeq(ids, 1, Len(tried))
        /\ (pc = "done" /\ result.status = "Err") => tried = ids
        /\ (pc = "done" /\ result.status = "Ok") =>
               result.dev = tried[Len(tried)]

C9_Witness ==
    /\ pc = "done"
    /\ Len(devs) = 3
    /\ devs[1].name = N_sda10 /\ devs[2].name = N_sda2 /\ devs[3].name = N_sda2
    /\ MountTried = <<2, 3, 1>>

\* ------------------------------------------- configuration resolver
\* A label of syslinux_conf: its name (the key of Labels), the kind of its
\* kernel_file ("none" = None, "linux" = Some(KernelFile::Linux), "other" =
\* Some of another kind), its initrd and its append ("none" = None).
Label(name, kernel_file, initrd, append) ==
    [name |-> name, kernel_file |-> kernel_file, initrd |-> initrd,
     append |-> append]

NoLabel == Label("none", "none", "none", "none")

LabelNames == {"a", "b", "c"}
\* a label name of the global section: absent, a label of the file, or a
\* name no label has
NameRefs == {"none", "zz"} \cup LabelNames

\* (kernel_file, initrd, append) of the labels and of label_defaults the
\* model draws its inputs from
LabelShapes ==
    {<<"linux", "none", "none">>, <<"linux", "initrd.img", "-">>,
     <<"none", "none", "x">>, <<"other", "none", "none">>}
DefaultShapes ==
    {<<"none", "none", "none">>, <<"linux", "initrd.def", "d">>,
     <<"none", "none", "-">>}

\* label.apply_defaults(&label_defaults): unset fields take the default's
apply_defaults(label, defaults) ==
    [label EXCEPT
        !.kernel_file = IF label.kernel_file = "none" THEN defaults.kernel_file
                        ELSE label.kernel_file,
        !.initrd = IF label.initrd = "none" THEN defaults.initrd
                   ELSE label.initrd,
        !.append = IF label.append = "none" THEN defaults.append
                   ELSE label.append]

\* leaving the append value as merged (a plausible slip)
fix_append_keep(label) == label

\* SyslinuxConf::fix_append
fix_append(label) ==
    [label EXCEPT !.append = IF label.append = "-" THEN "none" ELSE label.append]

\* keeping every label that has a kernel file of any kind (a plausible slip)
keeps_any_kernel(label) == label.kernel_file # "none"

\* the predicate of the .filter of filter_map_labels
keeps(label) == label.kernel_file = "linux"

\* SyslinuxConf::filter_map_labels
RECURSIVE filter_map_labels(_, _)
filter_map_labels(label_defaults, labels) ==
    IF labels = <<>> THEN <<>>
    ELSE LET l == fix_append(apply_defaults(Head(labels), label_defaults))
             rest == filter_map_labels(label_defaults, Tail(labels))
         IN  IF keeps(l) THEN <<l>> \o rest ELSE rest

\* labels.get(name).cloned(); NoLabel is None
get(labels, name) ==
    IF \E k \in 1..Len(labels) : labels[k].name = name
    THEN labels[CHOOSE k \in 1..Len(labels) : labels[k].name = name]
    ELSE NoLabel

\* option.and_then(|name| labels.get(name).cloned())
lookup(labels, ref) == IF ref = "none" THEN NoLabel ELSE get(labels, ref)

\* never finding a first label (a plausible slip of the last fallback)
front_none(labels) == NoLabel

\* labels.front()
front(labels) == IF labels = <<>> THEN NoLabel ELSE Head(labels)

\* trying the default before the on-timeout name (a plausible slip)
resolve_ontimeout_default_first(ontimeout, default, labels) ==
    IF default # NoLabel THEN default
    ELSE IF ontimeout # NoLabel THEN ontimeout
    ELSE front(labels)

\* from_conf: ontimeout.or(default.or_else(|| labels.front()))
resolve_ontimeout(ontimeout, default, labels) ==
    IF ontimeout # NoLabel THEN ontimeout
    ELSE IF default # NoLabel THEN default
    ELSE front(labels)

\* falling back to the first label (a plausible slip of the onerror field)
resolve_onerror_fallback(labels, ref) ==
    IF lookup(labels, ref) # NoLabel THEN lookup(labels, ref) ELSE front(labels)

\* from_conf: conf.global.onerror.and_then(|name| labels.get(&name).cloned())
resolve_onerror(labels, ref) == lookup(labels, ref)

ConfErr ==
    [status |-> "Err", ontimeout |-> NoLabel, onerror |-> NoLabel,
     default_name |-> "none", labels |-> <<>>]

\* keeping the configured default name whether or not its label was found
default_name_kept(default, configured) == configured

\* from_conf, the match on default: the configured name when its label was
\* found among the labels kept, None otherwise
default_name_of(default, configured) ==
    IF default # NoLabel THEN configured ELSE "none"

\* SyslinuxConf::from_conf
from_conf(c) ==
    LET labels == filter_map_labels(c.label_defaults, c.labels)
        default == lookup(labels, c.default)
        ontimeout == lookup(labels, c.ontimeout)
        default_name == default_name_of(default, c.default)
        chosen == resolve_ontimeout(ontimeout, default, labels)
    IN  IF chosen = NoLabel THEN ConfErr
        ELSE [status |-> "Ok", ontimeout |-> chosen,
              onerror |-> resolve_onerror(labels, c.onerror),
              default_name |-> default_name, labels |-> labels]

\* label sequences with distinct names, of length up to n
RECURSIVE LabelSeqs(_)
LabelSeqs(n) ==
    IF n = 0 THEN {<<>>}
    ELSE LET shorter == LabelSeqs(n - 1)
         IN  shorter \cup
             {Append(s, Label(nm, sh[1], sh[2], sh[3])) :
                  s \in {t \in shorter : Len(t) = n - 1 /\ Len(t) < Cardinality(LabelNames)},
                  nm \in LabelNames, sh \in LabelShapes}

DistinctNames(ls) ==
    \A p \in 1..Len(ls), q \in 1..Len(ls) : p # q => ls[p].name # ls[q].name

InitConf ==
    /\ pc = "c_start"
    /\ \E ls \in {l \in LabelSeqs(MaxLabels) : DistinctNames(l)},
          d \in NameRefs, t \in NameRefs, e \in NameRefs, df \in DefaultShapes :
           conf = [default |-> d, ontimeout |-> t, onerror |-> e,
                   label_defaults |-> Label("none", df[1], df[2], df[3]),
                   labels |-> ls]
    /\ sconf = "none"
    /\ devs = <<>>
    /\ i = 1
    /\ filesystems = <<>>
    /\ j = 1
    /\ mnt = NoMount
    /\ result = NoResult
    /\ log = <<>>
    /\ osMounted = {}
    /\ tmpdirs = {}
    /\ nextDir = 1
    /\ ret = "none"
    /\ ncalls = 0
    /\ XIdle

\* KexLinux::from_reader: SyslinuxConf::from_conf(reader.read())
FromConf ==
    /\ pc = "c_start"
    /\ sconf' = from_conf(conf)
    /\ pc' = "c_done"
    /\ UNCHANGED <<devs, i, filesystems, j, mnt, result, log, osMounted,
                   tmpdirs, nextDir, ret, ncalls, conf>>
    /\ UNCHANGED xvars

NextConf == FromConf

SpecConf == InitConf /\ [][NextConf]_vars

\* ------------------------------------------------------------- claim C10
\* the input labels that survive: a Linux kernel file of their own, or none
\* of their own and a Linux kernel file in label_defaults
Survives(c, l) ==
    \/ l.kernel_file = "linux"
    \/ l.kernel_file = "none" /\ c.label_defaults.kernel_file = "linux"
Survivors(c) == {k \in 1..Len(c.labels) : Survives(c, c.labels[k])}
SurvivorNames(c) == {c.labels[k].name : k \in Survivors(c)}
FirstSurvivor(c) ==
    c.labels[CHOOSE k \in Survivors(c) : \A m \in Survivors(c) : k <= m].name

\* C10: ontimeout is the label named by the configured on-timeout name when
\* that is a survivor; else the one named by the configured default when
\* that is a survivor; else the first survivor in file order.
C10_OnTimeoutFallback ==
    (pc = "c_done" /\ sconf.status = "Ok") =>
        /\ \E k \in 1..Len(sconf.labels) : sconf.labels[k] = sconf.ontimeout
        /\ sconf.ontimeout.name =
               IF conf.ontimeout \in SurvivorNames(conf) THEN conf.ontimeout
               ELSE IF conf.default \in SurvivorNames(conf) THEN conf.default
               ELSE FirstSurvivor(conf)

C10_Witness ==
    /\ pc = "c_done"
    /\ sconf.status = "Ok"
    /\ conf.ontimeout # "none"
    /\ conf.ontimeout \notin SurvivorNames(conf)
    /\ conf.default \in SurvivorNames(conf)
    /\ conf.default # FirstSurvivor(conf)
    /\ sconf.ontimeout.name = conf.default

\* ------------------------------------------------ claims C11, C12, C19
\* C11: from_conf succeeds iff at least one label survives filtering,
\* whatever the default / on-timeout / on-error names are; when it succeeds
\* ontimeout is present.
C11_SucceedsIffSurvivor ==
    pc = "c_done" =>
        /\ sconf.status \in {"Ok", "Err"}
        /\ sconf.status = "Ok" <=> Survivors(conf) # {}
        /\ sconf.status = "Ok" => sconf.ontimeout # NoLabel

C11_Witness ==
    /\ pc = "c_done"
    /\ sconf.status = "Ok"
    /\ conf.default = "zz"
    /\ conf.onerror = "zz"
    /\ conf.ontimeout \in {conf.labels[k].name : k \in 1..Len(conf.labels)}
    /\ conf.ontimeout \notin SurvivorNames(conf)

\* the names of a label sequence, in order
NamesOf(ls) == [k \in 1..Len(ls) |-> ls[k].name]

\* C12: the resolved label mapping holds exactly the input labels whose boot
\* target, after the defaults merge, is a Linux kernel file, in their file
\* order; dropped labels never make construction fail while one valid label
\* remains.
C12_LabelFiltering ==
    pc = "c_done" =>
        /\ Survivors(conf) # {} => sconf.status = "Ok"
        /\ sconf.status = "Ok" =>
               /\ NamesOf(sconf.labels) =
                      NamesOf(SelectSeq(conf.labels, LAMBDA l : Survives(conf, l)))
               /\ \A k \in 1..Len(sconf.labels) :
                      sconf.labels[k].kernel_file = "linux"

C12_Witness ==
    /\ pc = "c_done"
    /\ sconf.status = "Ok"
    /\ Len(conf.labels) = 2
    /\ Len(sconf.labels) = 1
    /\ conf.labels[1].kernel_file = "none"
    /\ conf.label_defaults.kernel_file = "none"
    /\ sconf.labels[1].name = conf.labels[2].name

\* C19: onerror is present iff an on-error name is configured and names a
\* survivor, and then it is that label; it never falls back to the default
\* or to the first label, and an unresolvable name does not fail construction.
C19_OnErrorNoFallback ==
    (pc = "c_done" /\ Survivors(conf) # {}) =>
        /\ sconf.status = "Ok"
        /\ sconf.onerror # NoLabel <=> conf.onerror \in SurvivorNames(conf)
        /\ sconf.onerror # NoLabel =>
               /\ sconf.onerror.name = conf.onerror
               /\ \E k \in 1..Len(sconf.labels) : sconf.labels[k] = sconf.onerror

C19_Witness ==
    /\ pc = "c_done"
    /\ sconf.status = "Ok"
    /\ conf.onerror \in {conf.labels[k].name : k \in 1..Len(conf.labels)}
    /\ conf.onerror \notin SurvivorNames(conf)
    /\ conf.default \in SurvivorNames(conf)
    /\ sconf.onerror = NoLabel

\* ------------------------------------------------------ kernel loading
\* KexLinux::load_kernel, the two early returns before the command is built
load_rejects(label) == label.kernel_file # "linux"

\* KexLinux::load_kernel, the arguments given to kexec
load_args(label) ==
    <<"--load", label.kernel_file>>
        \o (IF label.initrd # "none" THEN <<"--initrd", label.initrd>> ELSE <<>>)
        \o (IF label.append # "none" THEN <<"--append", label.append>> ELSE <<>>)

\* ------------------------------------------------------------- claim C13
\* the configuration with label k's append unset and no default append
AppendUnset(c, k) ==
    [c EXCEPT !.labels[k].append = "none", !.label_defaults.append = "none"]

\* the append value of an input label after the defaults merge
MergedAppend(c, l) == IF l.append = "none" THEN c.label_defaults.append ELSE l.append

\* C13: a label whose merged append is "-" ends with append absent, its load
\* invocation carries no --append and equals the invocation of the same label
\* with append unset and no default append; an explicit "-" does not inherit
\* the default append, an unset append does.
C13_AppendNormalization ==
    (pc = "c_done" /\ sconf.status = "Ok") =>
        \A k \in Survivors(conf) :
            LET l == conf.labels[k]
                m == get(sconf.labels, l.name)
                plain == get(from_conf(AppendUnset(conf, k)).labels, l.name)
            IN  /\ m.name = l.name
                /\ MergedAppend(conf, l) = "-" =>
                       /\ m.append = "none"
                       /\ \A x \in 1..Len(load_args(m)) : load_args(m)[x] # "--append"
                       /\ load_args(m) = load_args(plain)
                /\ l.append = "-" => m.append = "none"
                /\ MergedAppend(conf, l) # "-" => m.append = MergedAppend(conf, l)
                /\ (l.append = "none" /\ conf.label_defaults.append = "d") =>
                       load_args(m)[Len(load_args(m))] = "d"

C13_Witness ==
    /\ pc = "c_done"
    /\ sconf.status = "Ok"
    /\ conf.label_defaults.append = "d"
    /\ \E k \in Survivors(conf) : conf.labels[k].append = "-"
    /\ \E k \in Survivors(conf) : conf.labels[k].append = "none"


\* ------------------------------------------------- BlockDevs (blockdev.rs)
\* The values of the discovery and configuration variables while neither
\* runs.
DiscIdle ==
    /\ devs = <<>>
    /\ i = 1
    /\ filesystems = <<>>
    /\ j = 1
    /\ mnt = NoMount
    /\ result = NoResult
    /\ osMounted = {}
    /\ tmpdirs = {}
    /\ nextDir = 1
    /\ ret = "none"
    /\ ncalls = 0
    /\ conf = "none"
    /\ sconf = "none"

\* What read_dir yields for one entry of /sys/block:
\*   "entry_err"  the directory entry itself is an io::Error,
\*   "build_err"  the entry is read but BlockDev::from_sys_path fails on it,
\*   "ok"         BlockDev::from_sys_path builds the record.
EntryKinds == {"ok", "entry_err", "build_err"}

\* The catalogs of n entries at most; an entry is known by its position.
Catalogs(n) ==
    UNION {[1..k -> EntryKinds] : k \in 0..n}

\* Option<BlockDev>::None
NoDev == 0

\* BlockDevs::next_dev with read_dir standing at entry p: the Result, the
\* device inside an Ok(Some(_)), and where read_dir stands afterwards.
\* read_dir.next() consumes the entry whether or not a record is built of it.
next_dev(cat, p) ==
    IF p > Len(cat)
    THEN [res |-> "Ok", dev |-> NoDev, pos |-> p]
    ELSE IF cat[p] = "ok"
         THEN [res |-> "Ok", dev |-> p, pos |-> p + 1]
         ELSE [res |-> "Err", dev |-> NoDev, pos |-> p + 1]

\* An iterator that ends at the first entry it cannot build.
next_until_err(cat, p) ==
    LET r == next_dev(cat, p)
    IN  IF r.res = "Ok" THEN r ELSE [res |-> "Ok", dev |-> NoDev, pos |-> r.pos]

\* Iterator::next for BlockDevs: loop { match self.next_dev() {
\*   Ok(maybe_dev) => return maybe_dev, Err(_) => () } }
RECURSIVE next_blockdev(_, _)
next_blockdev(cat, p) ==
    LET r == next_dev(cat, p)
    IN  IF r.res = "Ok" THEN r ELSE next_blockdev(cat, r.pos)

InitEnum ==
    /\ pc = "e_iter"
    /\ catalog \in Catalogs(MaxDevs)
    /\ rd_pos = 1
    /\ yielded = <<>>
    /\ log = <<>>
    /\ DiscIdle
    /\ boot_label = "none"
    /\ exit = "none"
    /\ args = "none"
    /\ target = "none"
    /\ probeOut = <<>>
    /\ sys_node = "none"
    /\ built = "none"

\* one call of next() by the consumer of the iterator returning Some(dev)
EnumNextSome ==
    /\ pc = "e_iter"
    /\ LET r == next_blockdev(catalog, rd_pos)
       IN  /\ r.dev # NoDev
           /\ yielded' = Append(yielded, r.dev)
           /\ rd_pos' = r.pos
    /\ UNCHANGED <<pc, catalog, target, log, probeOut>>
    /\ UNCHANGED <<discVars, confVars, bootVars>>
    /\ UNCHANGED sysVars

\* one call of next() returning None: the consumer stops iterating
EnumNextNone ==
    /\ pc = "e_iter"
    /\ LET r == next_blockdev(catalog, rd_pos)
       IN  /\ r.dev = NoDev
           /\ rd_pos' = r.pos
    /\ pc' = "e_end"
    /\ UNCHANGED <<yielded, catalog, target, log, probeOut>>
    /\ UNCHANGED <<discVars, confVars, bootVars>>
    /\ UNCHANGED sysVars

NextEnum == EnumNextSome \/ EnumNextNone

SpecEnum == InitEnum /\ [][NextEnum]_vars

\* the positions of the entries of cat among the first n that can be built
Constructible(cat, n) ==
    SelectSeq([k \in 1..n |-> k], LAMBDA k : cat[k] = "ok")

\* ------------------------------------------------------------- claim C14
\* C14: iterating BlockDevs over a finite catalog yields exactly the entries
\* whose record construction succeeds, in catalog order: at every moment the
\* devices yielded so far are the constructible entries among those read_dir
\* has consumed, whatever failing entries lie between them, and
\* end-of-sequence is returned only when the catalog is exhausted, with every
\* constructible entry of the catalog yielded.
C14_LenientEnumeration ==
    pc \in {"e_iter", "e_end"} =>
        /\ rd_pos \in 1..(Len(catalog) + 1)
        /\ yielded = Constructible(catalog, rd_pos - 1)
        /\ pc = "e_end" =>
              /\ rd_pos = Len(catalog) + 1
              /\ yielded = Constructible(catalog, Len(catalog))

\* the iteration has ended after passing two consecutive failing entries
\* followed by a constructible one, which it yielded
C14_Witness ==
    /\ pc = "e_end"
    /\ \E k \in 1..(Len(catalog) - 2) :
          /\ catalog[k] # "ok"
          /\ catalog[k + 1] # "ok"
          /\ catalog[k + 2] = "ok"
          /\ \E n \in 1..Len(yielded) : yielded[n] = k + 2


\* ------------------------------------------- boot hand-off (kexlinux.rs)
\* KexLinux::check_kexec_output
check_kexec_output(outcome) == IF outcome = "ok" THEN "Ok" ELSE "Err"

\* What load_kernel meets after it accepted the label: "to_str_err" is
\* kernel_file.to_str() or initrd.to_str() giving None (a path that is not
\* UTF-8), which returns Err before the command runs; the others are the
\* outcomes of the command.
LoadOutcomes == {"to_str_err"} \cup CmdOutcomes

\* What kexec meets: the outcomes of the command, and "no_return": kexec
\* --exec started the loaded kernel and output() never returns.
ExecOutcomes == {"no_return"} \cup CmdOutcomes

\* running the execute stage whatever the load stage returned
then_always(res) == "loaded"

\* KexLinux::boot, load_kernel(label).and_then(|_| kexec()): where boot goes
\* after load_kernel returned res
and_then(res) == IF res = "Ok" THEN "loaded" ELSE "boot_err"

\* a kexec that returns Ok(()) when the command reports success
kexec_returns_ok(outcome) ==
    CASE outcome = "no_return" -> "handoff"
      [] outcome = "ok" -> "Ok"
      [] OTHER -> "Err"

\* KexLinux::kexec: try!(check_kexec_output(cmd, "exec")) returns Err, and a
\* command that reports success runs into panic!("This will never happen")
kexec_returns(outcome) ==
    CASE outcome = "no_return" -> "handoff"
      [] check_kexec_output(outcome) = "Ok" -> "panic"
      [] OTHER -> "Err"

\* the labels boot can be called with
BootLabels ==
    {Label(n, kf, ir, ap) : n \in LabelNames, kf \in {"none", "linux", "other"},
                            ir \in {"none", "initrd.img"}, ap \in {"none", "x"}}

\* an invocation of kexec in the log
KexecEvent(stage, res) == Event(stage, 0, NoPath, res)

InitBoot ==
    /\ pc = "boot"
    /\ boot_label \in BootLabels
    /\ exit = "none"
    /\ args = "none"
    /\ log = <<>>
    /\ DiscIdle
    /\ catalog = <<>>
    /\ rd_pos = 1
    /\ yielded = <<>>
    /\ target = "none"
    /\ probeOut = <<>>
    /\ sys_node = "none"
    /\ built = "none"

\* KexLinux::load_kernel as boot calls it
load_kernel ==
    /\ pc = "boot"
    /\ IF load_rejects(boot_label)
       THEN /\ pc' = and_then("Err")
            /\ log' = log
       ELSE \E outcome \in LoadOutcomes :
               IF outcome = "to_str_err"
               THEN /\ pc' = and_then("Err")
                    /\ log' = log
               ELSE LET res == check_kexec_output(outcome)
                    IN  /\ log' = Append(log, KexecEvent("kexec_load", res))
                        /\ pc' = and_then(res)
    /\ UNCHANGED <<boot_label, exit, args, probeOut>>
    /\ UNCHANGED <<discVars, confVars, enumVars>>
    /\ UNCHANGED sysVars

\* KexLinux::kexec as boot calls it
kexec ==
    /\ pc = "loaded"
    /\ \E outcome \in ExecOutcomes :
          LET r == kexec_returns(outcome)
          IN  /\ log' = Append(log, KexecEvent("kexec_exec", r))
              /\ pc' = CASE r = "Err" -> "boot_err"
                         [] r = "Ok" -> "boot_ok"
                         [] OTHER -> "exited"
              /\ exit' = IF r \in {"panic", "handoff"} THEN r ELSE exit
    /\ UNCHANGED <<boot_label, args, probeOut>>
    /\ UNCHANGED <<discVars, confVars, enumVars>>
    /\ UNCHANGED sysVars

NextBoot == load_kernel \/ kexec

SpecBoot == InitBoot /\ [][NextBoot]_vars

\* ------------------------------------------------------------- claim C15
\* the positions of the log at which a stage of kexec was invoked
StageAt(stage) == {k \in 1..Len(log) : log[k].cmd = stage}

\* C15: boot invokes the load stage first and the execute stage only after
\* the load stage exited successfully; when the label is rejected or the
\* load stage fails, the execute stage is never invoked and boot returns an
\* error; the execute stage is invoked at most once per call of boot.
C15_HandoffOrdering ==
    /\ Cardinality(StageAt("kexec_exec")) <= 1
    /\ Cardinality(StageAt("kexec_load")) <= 1
    /\ \A e \in StageAt("kexec_exec") :
          \E l \in StageAt("kexec_load") : l < e /\ log[l].res = "Ok"
    /\ load_rejects(boot_label) =>
          /\ log = <<>>
          /\ pc \in {"boot", "boot_err"}
    /\ \A l \in StageAt("kexec_load") :
          log[l].res = "Err" => /\ StageAt("kexec_exec") = {}
                                /\ pc = "boot_err"
    /\ (pc # "boot" /\ StageAt("kexec_load") = {}) => pc = "boot_err"

\* the execute stage was invoked after a successful load and failed
C15_Witness ==
    /\ pc = "boot_err"
    /\ Len(log) = 2
    /\ log[1] = KexecEvent("kexec_load", "Ok")
    /\ log[2] = KexecEvent("kexec_exec", "Err")


\* --------------------------------------------------- main (bin/kexlinux.rs)
\* the values clap accepts for --type
ConfTypes == {"syslinux", "isolinux", "extlinux"}

\* What get_matches returns: no subcommand, or the subcommand mount with its
\* ROOT DIR and at most one member of the group "detection" (--type and
\* CONF FILE PATH).
MainArgs ==
    {[sub |-> "none", conf_path |-> "none", type |-> "none"]}
        \cup {a \in [sub : {"mount"}, conf_path : {"none", "cfg"},
                     type : {"none"} \cup ConfTypes] :
                 a.conf_path = "none" \/ a.type = "none"}

\* the match of kexlinux_from_mount on the type given, to
\* syslinux_conf::LocalConfType
local_conf_type(t) ==
    CASE t = "syslinux" -> "SysLinux"
      [] t = "isolinux" -> "IsoLinux"
      [] t = "extlinux" -> "ExtLinux"

\* a kexlinux_from_mount that has no arm for --type
strategy_without_type(a) ==
    IF a.conf_path # "none"
    THEN [call |-> "from_local_conf_file_path", with |-> a.conf_path]
    ELSE [call |-> "from_local", with |-> "none"]

\* kexlinux_from_mount: the constructor of KexLinux it calls, and with what
strategy(a) ==
    IF a.conf_path # "none"
    THEN [call |-> "from_local_conf_file_path", with |-> a.conf_path]
    ELSE IF a.type # "none"
         THEN [call |-> "from_local_type", with |-> local_conf_type(a.type)]
         ELSE [call |-> "from_local", with |-> "none"]

\* a call of a constructor of KexLinux in the log
StrategyCall(st, res) ==
    Event(st.call, 0, [kind |-> st.with, n |-> 0], res)

\* The on-timeout labels a KexLinux can hold: from_conf takes them from the
\* labels filter_map_labels kept.
MainLabels == {l \in BootLabels : keeps(l)}

InitMain ==
    /\ pc = "main"
    /\ args \in MainArgs
    /\ boot_label = NoLabel
    /\ exit = "none"
    /\ log = <<>>
    /\ DiscIdle
    /\ catalog = <<>>
    /\ rd_pos = 1
    /\ yielded = <<>>
    /\ target = "none"
    /\ probeOut = <<>>
    /\ sys_node = "none"
    /\ built = "none"

\* main, subcommand_matches("mount") is None: error!("No command"); exit(1)
main_no_command ==
    /\ pc = "main"
    /\ args.sub # "mount"
    /\ exit' = "exit_1"
    /\ pc' = "exited"
    /\ UNCHANGED <<boot_label, args, log, probeOut>>
    /\ UNCHANGED <<discVars, confVars, enumVars>>
    /\ UNCHANGED sysVars

\* main, kexlinux_from_mount(matches) and the match on what it returns: the
\* constructor fails, or gives a KexLinux whose on-timeout label is l
main_from_mount ==
    /\ pc = "main"
    /\ args.sub = "mount"
    /\ \/ /\ log' = Append(log, StrategyCall(strategy(args), "Err"))
          /\ exit' = "exit_1"
          /\ pc' = "exited"
          /\ UNCHANGED boot_label
       \/ \E l \in MainLabels :
             /\ log' = Append(log, StrategyCall(strategy(args), "Ok"))
             /\ boot_label' = l
             /\ pc' = "boot"
             /\ UNCHANGED exit
    /\ UNCHANGED <<args, probeOut>>
    /\ UNCHANGED <<discVars, confVars, enumVars>>
    /\ UNCHANGED sysVars

\* main, after boot returned: `if let Err(_) = boot(..) { exit(1) }`, and the
\* end of main otherwise
main_after_boot ==
    /\ pc \in {"boot_err", "boot_ok"}
    /\ exit' = IF pc = "boot_err" THEN "exit_1" ELSE "exit_0"
    /\ pc' = "exited"
    /\ UNCHANGED <<boot_label, args, log, probeOut>>
    /\ UNCHANGED <<discVars, confVars, enumVars>>
    /\ UNCHANGED sysVars

NextMain ==
    main_no_command \/ main_from_mount \/ load_kernel \/ kexec \/ main_after_boot

SpecMain == InitMain /\ [][NextMain]_vars

\* the calls of constructors of KexLinux in the log
StrategyCalls ==
    SelectSeq(log, LAMBDA e : e.cmd \in {"from_local_conf_file_path",
                                         "from_local_type", "from_local"})

\* ------------------------------------------------------------- claim C16
\* C16: boot never returns success to its caller, so the program never
\* exits with code 0; it exits with code 1 when no subcommand is given, when
\* initialization (configuration resolution included) fails, and when the
\* load or the execute stage fails.  The only other ends are the hand-off
\* itself and the panic of an execute stage that reported success.
C16_ExitStatus ==
    /\ pc # "boot_ok"
    /\ exit # "exit_0"
    /\ (exit # "none") = (pc = "exited")
    /\ pc = "exited" =>
          /\ args.sub # "mount" => exit = "exit_1"
          /\ (\E k \in 1..Len(StrategyCalls) : StrategyCalls[k].res = "Err")
                => exit = "exit_1"
          /\ (\E l \in StageAt("kexec_load") : log[l].res = "Err")
                => exit = "exit_1"
          /\ (\E e \in StageAt("kexec_exec") : log[e].res = "Err")
                => exit = "exit_1"
          /\ exit = "exit_1" \/ \E e \in StageAt("kexec_exec") : log[e].res = exit

\* the execute stage reported success and control came back to the program
C16_Witness ==
    /\ pc = "exited"
    /\ exit = "panic"
    /\ \E e \in StageAt("kexec_exec") : log[e].res = "panic"

\* ------------------------------------------------------------- claim C17
\* C17: for the subcommand mount exactly one constructor is called per run:
\* from_local_conf_file_path when a configuration-file path is given, else
\* from_local_type when a type is given, else from_local; what that call
\* returns is what initialization returns, and no other constructor is
\* called after it.
C17_StrategyPrecedence ==
    /\ (pc = "main" \/ args.sub # "mount") => Len(StrategyCalls) = 0
    /\ (pc # "main" /\ args.sub = "mount") =>
          /\ Len(StrategyCalls) = 1
          /\ log[1] = StrategyCalls[1]
          /\ args.conf_path # "none"
                => /\ log[1].cmd = "from_local_conf_file_path"
                   /\ log[1].path.kind = args.conf_path
          /\ (args.conf_path = "none" /\ args.type # "none")
                => /\ log[1].cmd = "from_local_type"
                   /\ log[1].path.kind = local_conf_type(args.type)
          /\ (args.conf_path = "none" /\ args.type = "none")
                => log[1].cmd = "from_local"
          /\ log[1].res = "Err" => /\ pc = "exited"
                                   /\ exit = "exit_1"
                                   /\ Len(log) = 1
          /\ log[1].res = "Ok" => boot_label \in MainLabels

\* a type was given, from_local_type failed, and the run ended there
C17_Witness ==
    /\ pc = "exited"
    /\ args.sub = "mount"
    /\ args.type = "isolinux"
    /\ log = <<StrategyCall([call |-> "from_local_type", with |-> "IsoLinux"], "Err")>>


\* ------------------------------------- blkid output, line by line (SpecProbe)
MaxProbes == 2
MaxLines == 2

\* A line of the output of blkid -o export, split by splitn(2, "="): the key
\* and the value; the value "none" stands for a line without "=".
BlkidLines ==
    {<<"USAGE", "filesystem">>, <<"USAGE", "swap">>, <<"TYPE", "ext4">>,
     <<"TYPE", "none">>, <<"usage", "filesystem">>}

RECURSIVE LineSeqs(_)
LineSeqs(n) ==
    IF n = 0 THEN {<<>>}
    ELSE LET shorter == LineSeqs(n - 1)
         IN  shorter \cup {Append(s, l) : s \in {t \in shorter : Len(t) = n - 1},
                                          l \in BlkidLines}

\* What one run of blkid gives: the outcome of the command and, when it
\* exited 0, its lines; "utf8_err" is a stdout String::from_utf8 rejects.
ProbeOutputs(n) ==
    {[status |-> "ok", lines |-> ls] : ls \in LineSeqs(n)}
        \cup {[status |-> st, lines |-> <<>>] : st \in {"fail", "spawn_err", "utf8_err"}}

\* BlkIDInfo::default()
BlkIDInfoDefault == [usage |-> "none", fs_type |-> "none"]

\* BlkIDInfo::build
build(info, kv) ==
    IF kv[2] = "none" THEN info
    ELSE IF kv[1] = "USAGE" THEN [info EXCEPT !.usage = kv[2]]
    ELSE IF kv[1] = "TYPE" THEN [info EXCEPT !.fs_type = kv[2]]
    ELSE info

\* the fold of parse_blkid_output over the lines, from info
RECURSIVE fold_build(_, _)
fold_build(info, lines) ==
    IF lines = <<>> THEN info
    ELSE fold_build(build(info, Head(lines)), Tail(lines))

\* FS::get_fs_type on the lines blkid printed
get_fs_type_of_lines(o) ==
    LET info == fold_build(BlkIDInfoDefault, o.lines)
    IN  get_fs_type([status |-> o.status, usage |-> info.usage,
                     fs_type |-> info.fs_type])

InitProbe ==
    /\ pc = "probe"
    /\ devs \in DevSeqs(MaxProbes)
    /\ i = 1
    /\ filesystems = <<>>
    /\ j = 1
    /\ mnt = NoMount
    /\ result = NoResult
    /\ log = <<>>
    /\ osMounted = {}
    /\ tmpdirs = {}
    /\ nextDir = 1
    /\ ret = "none"
    /\ ncalls = 0
    /\ conf = "none"
    /\ sconf = "none"
    /\ XIdle

\* get_filesystems, FS::from_dev(dev) running blkid, with what blkid printed
\* kept in probeOut; filter_map keeps the Ok
from_dev_lines ==
    /\ pc = "probe"
    /\ i <= Len(devs)
    /\ ~skips(devs[i])
    /\ \E o \in ProbeOutputs(MaxLines) :
          LET t == get_fs_type_of_lines(o)
          IN  /\ probeOut' = <<[dev |-> devs[i].id, out |-> o]>>
              /\ log' = Append(log, Event("blkid", devs[i].id, NoPath,
                                          IF t = "Err" THEN "Err" ELSE "Ok"))
              /\ filesystems' = IF t = "Err" THEN filesystems
                                ELSE Append(filesystems, FS(devs[i], t))
    /\ i' = i + 1
    /\ UNCHANGED <<pc, devs, j, mnt, result, osMounted, tmpdirs, nextDir,
                   ret, ncalls, conf, sconf>>
    /\ UNCHANGED <<bootVars, enumVars>>
    /\ UNCHANGED sysVars

NextProbe == from_dev_skip \/ from_dev_lines

SpecProbe == InitProbe /\ [][NextProbe]_vars

\* ------------------------------------------------------------- claim C18
\* the lines of ls that set key: those with that key and a value
Setting(ls, key) == {k \in 1..Len(ls) : ls[k][1] = key /\ ls[k][2] # "none"}

\* the output gives value for key: it sets key, and sets it last to value
Gives(ls, key, value) ==
    \E k \in Setting(ls, key) :
        /\ ls[k][2] = value
        /\ \A m \in Setting(ls, key) : m <= k

\* the devices FS::from_dev made an FS of
Accepted == {filesystems[k].dev.id : k \in 1..Len(filesystems)}

\* C18: FS::from_dev on an eligible device succeeds only if blkid exits
\* successfully and its output gives the usage class "filesystem" together
\* with a filesystem type, which becomes the type of the FS; any other or
\* missing usage class, a missing type or a failure of the utility rejects
\* that one device, and get_filesystems goes on with the remaining devices:
\* every eligible device before the current one has been probed, and the
\* devices kept are those whose probe succeeded.
C18_ProbeClassification ==
    /\ Len(probeOut) = 1 =>
          LET p == probeOut[1]
              good == /\ p.out.status = "ok"
                      /\ Gives(p.out.lines, "USAGE", "filesystem")
                      /\ Setting(p.out.lines, "TYPE") # {}
          IN  /\ log[Len(log)].dev = p.dev
              /\ good = (p.dev \in Accepted)
              /\ good = (log[Len(log)].res = "Ok")
              /\ good => \E k \in 1..Len(filesystems) :
                            /\ filesystems[k].dev.id = p.dev
                            /\ Gives(p.out.lines, "TYPE", filesystems[k].fs_type)
    /\ \A d \in 1..(i - 1) :
          /\ skips(devs[d]) => /\ d \notin Accepted
                               /\ \A k \in 1..Len(log) : log[k].dev # d
          /\ ~skips(devs[d]) =>
                \E k \in 1..Len(log) :
                    /\ log[k].dev = d
                    /\ (log[k].res = "Ok") = (d \in Accepted)
    /\ Accepted \subseteq 1..(i - 1)

\* blkid gave a usage class other than "filesystem" (with a type) for the
\* first device, which was rejected, and the second device was then probed
\* and kept
C18_Witness ==
    /\ i = 3
    /\ Len(log) = 2
    /\ log[1].res = "Err"
    /\ Accepted = {2}
    /\ probeOut[1].out.lines = <<<<"TYPE", "ext4">>, <<"USAGE", "filesystem">>>>


\* ------------------------------------ from_device_path (SpecDevPath)
\* The major number the devices of the model have; the minor number of a
\* device is its id.
SdMajor == 8
DevNumber(dev) == <<SdMajor, dev.id>>

\* st_rdev of a device node with the given major and minor numbers, as the
\* kernel encodes it (major below 4096): bits 0-7 and 20 upwards hold the
\* minor number, bits 8-19 the major number.
makedev(major, minor) ==
    (minor % 256) + (major % 4096) * 256 + (minor \div 256) * 1048576

\* from_dev_path: ((rdev & 0xFF00) >> 8) as u8 and (rdev & 0x00FF) as u8
rdev_major(rdev) == (rdev \div 256) % 256
rdev_minor(rdev) == rdev % 256

\* The numbers of the device nodes a caller may name: two that devices of
\* the catalog can have, one no device has, and two beyond eight bits.
TargetNumbers == {<<8, 1>>, <<8, 2>>, <<8, 200>>, <<264, 1>>, <<8, 258>>}

\* What from_dev_path meets before its scan: path.metadata() fails,
\* BlockDevs::new() fails, or both succeed with that st_rdev.
Targets ==
    {[status |-> st, rdev |-> 0] : st \in {"metadata_err", "read_dir_err"}}
        \cup {[status |-> "ok", rdev |-> makedev(n[1], n[2])] : n \in TargetNumbers}

\* The devices BlockDevs yields in this part: a leaf, a leaf with a holder,
\* a disk with two partitions whose directory order is not their natural
\* order, and a held disk with one partition.
PathShapes ==
    {LeafPart, Shape(N_sdb1, TRUE, <<>>),
     Shape(N_sda, FALSE, <<Shape(N_sda10, FALSE, <<>>), Shape(N_sda2, FALSE, <<>>)>>),
     Shape(N_sdb, TRUE, <<LeafPart>>)}

RECURSIVE PathCatalogs(_)
PathCatalogs(n) ==
    IF n = 0 THEN {<<>>}
    ELSE LET shorter == PathCatalogs(n - 1)
         IN  shorter \cup
             {Append(s, BlockDev(n, sh)) : s \in {t \in shorter : Len(t) = n - 1},
                                           sh \in PathShapes}

\* from_dev_path, the scan `for dev in BlockDevs::new()`: the position of the
\* first device with these numbers, 0 when there is none
RECURSIVE find_dev(_, _, _, _)
find_dev(cat, k, major, minor) ==
    IF k > Len(cat) THEN 0
    ELSE IF DevNumber(cat[k]) = <<major, minor>> THEN k
    ELSE find_dev(cat, k + 1, major, minor)

\* BlockDev::from_dev_path: the position in the catalog of the device it
\* returns, 0 for Err
from_dev_path(cat, tgt) ==
    IF tgt.status # "ok" THEN 0
    ELSE find_dev(cat, 1, rdev_major(tgt.rdev), rdev_minor(tgt.rdev))

\* handing the device itself to from_device_list whatever its partitions
candidates_self(dev, base) == <<dev>>

\* from_device_path, the match on dev.partitions.is_empty(): the devices
\* handed to from_device_list; partition p gets the id base + p
candidates(dev, base) ==
    IF dev.partitions = <<>> THEN <<dev>>
    ELSE [p \in 1..Len(dev.partitions) |-> BlockDev(base + p, dev.partitions[p])]

InitDevPath ==
    /\ pc = "lookup"
    /\ catalog \in PathCatalogs(MaxDevs)
    /\ target \in Targets
    /\ devs = <<>>
    /\ i = 1
    /\ filesystems = <<>>
    /\ j = 1
    /\ mnt = NoMount
    /\ result = NoResult
    /\ log = <<>>
    /\ osMounted = {}
    /\ tmpdirs = {}
    /\ nextDir = 1
    /\ ret = "none"
    /\ ncalls = 0
    /\ conf = "none"
    /\ sconf = "none"
    /\ boot_label = "none"
    /\ exit = "none"
    /\ args = "none"
    /\ rd_pos = 1
    /\ yielded = <<>>
    /\ probeOut = <<>>
    /\ sys_node = "none"
    /\ built = "none"

\* KexLinux::from_device_path up to its call of from_device_list
from_device_path ==
    /\ pc = "lookup"
    /\ LET m == from_dev_path(catalog, target)
       IN  IF m = 0
           THEN /\ result' = [status |-> "Err", root |-> NoPath, dev |-> 0]
                /\ pc' = "done"
                /\ devs' = devs
           ELSE /\ devs' = candidates(catalog[m], Len(catalog))
                /\ pc' = "probe"
                /\ result' = result
    /\ UNCHANGED <<i, filesystems, j, mnt, log, osMounted, tmpdirs, nextDir,
                   ret, ncalls, conf, sconf>>
    /\ UNCHANGED xvars

NextDevPath ==
    \/ from_device_path
    \/ from_dev_skip
    \/ from_dev_probe
    \/ sort_filesystems
    \/ loop_mount
    \/ loop_from_local
    \/ loop_drop_next
    \/ loop_drop_return
    \/ not_found

SpecDevPath == InitDevPath /\ [][NextDevPath]_vars

\* ------------------------------------------------------------- claim C20
\* the devices the log speaks of
Touched == {log[k].dev : k \in 1..Len(log)}

MaxEntries == 2

\* A directory of /sys/class/block as from_sys_path reads it:
\*   ident    what reading the file "dev" and the file name gives: "ok",
\*            "io_err" (open or read fails), "parse_err" (not two u8
\*            numbers), "name_err" (no UTF-8 file name),
\*   holders  the directory "holders": "none" (empty), "some",
\*            "read_dir_err", "entry_err" (its first entry is an Err),
\*   dir      read_dir of the directory itself: "ok" or "read_dir_err",
\*   entries  what that read_dir yields, in order.
SysNode(ident, holders, dir, entries) ==
    [ident |-> ident, holders |-> holders, dir |-> dir, entries |-> entries]

\* the directories of partitions the model draws from; they hold no entries
ChildNodes ==
    {SysNode(id, h, d, <<>>) : id \in {"ok", "parse_err"},
                               h \in {"none", "some", "read_dir_err"},
                               d \in {"ok", "read_dir_err"}}

\* An entry of read_dir: "entry_err" is an Err, "other" is an entry without
\* a file "partition" in it, "partition" is one with it, whose directory is
\* node.
SysEntry(kind, node) == [kind |-> kind, node |-> node]

SysEntries ==
    {SysEntry(kd, SysNode("ok", "none", "ok", <<>>)) : kd \in {"entry_err", "other"}}
        \cup {SysEntry("partition", c) : c \in ChildNodes}

RECURSIVE SysEntrySeqs(_)
SysEntrySeqs(n) ==
    IF n = 0 THEN {<<>>}
    ELSE LET shorter == SysEntrySeqs(n - 1)
         IN  shorter \cup {Append(s, e) : s \in {t \in shorter : Len(t) = n - 1},
                                          e \in SysEntries}

\* Result<BlockDev, BlockDevError>; the name of a device is the position of
\* its entry in the directory of its parent, 0 for the device asked for
SysErr == [status |-> "Err", dev |-> Shape(0, FALSE, <<>>)]
SysOk(dev) == [status |-> "Ok", dev |-> dev]

RECURSIVE from_sys_path(_, _)
RECURSIVE partitions_from(_, _)

\* a get_partitions that gives up at the first partition it cannot build
get_partitions_strict(node) ==
    IF node.dir # "ok" THEN [status |-> "Err", list |-> <<>>]
    ELSE IF \E k \in 1..Len(node.entries) :
                /\ node.entries[k].kind = "partition"
                /\ from_sys_path(node.entries[k].node, k).status = "Err"
         THEN [status |-> "Err", list |-> <<>>]
         ELSE [status |-> "Ok", list |-> partitions_from(node.entries, 1)]

\* get_partitions, the filter_map over the entries from position k on
partitions_from(entries, k) ==
    IF k > Len(entries) THEN <<>>
    ELSE LET rest == partitions_from(entries, k + 1)
         IN  IF entries[k].kind # "partition" THEN rest
             ELSE LET r == from_sys_path(entries[k].node, k)
                  IN  IF r.status = "Ok" THEN <<r.dev>> \o rest ELSE rest

\* BlockDev::get_partitions
get_partitions(node) ==
    IF node.dir # "ok" THEN [status |-> "Err", list |-> <<>>]
    ELSE [status |-> "Ok", list |-> partitions_from(node.entries, 1)]

\* BlockDev::check_holders
check_holders(node) ==
    CASE node.holders = "none" -> "false"
      [] node.holders = "some" -> "true"
      [] OTHER -> "Err"

\* BlockDev::from_sys_path
from_sys_path(node, name) ==
    IF node.ident # "ok" THEN SysErr
    ELSE IF check_holders(node) = "Err" THEN SysErr
    ELSE LET ps == get_partitions(node)
         IN  IF ps.status = "Err" THEN SysErr
             ELSE SysOk(Shape(name, check_holders(node) = "true", ps.list))

InitSys ==
    /\ pc = "s_start"
    /\ \E id \in {"ok", "io_err", "parse_err", "name_err"},
          h \in {"none", "some", "read_dir_err", "entry_err"},
          d \in {"ok", "read_dir_err"},
          es \in SysEntrySeqs(MaxEntries) :
           /\ d = "read_dir_err" => es = <<>>
           /\ sys_node = SysNode(id, h, d, es)
    /\ built = SysErr
    /\ log = <<>>
    /\ DiscIdle
    /\ boot_label = "none"
    /\ exit = "none"
    /\ args = "none"
    /\ catalog = <<>>
    /\ rd_pos = 1
    /\ yielded = <<>>
    /\ target = "none"
    /\ probeOut = <<>>

\* one call of BlockDev::from_sys_path
FromSysPath ==
    /\ pc = "s_start"
    /\ built' = from_sys_path(sys_node, 0)
    /\ pc' = "s_done"
    /\ UNCHANGED <<sys_node, log, probeOut>>
    /\ UNCHANGED <<discVars, confVars, bootVars, enumVars>>

NextSys == FromSysPath

SpecSys == InitSys /\ [][NextSys]_vars

\* ------------------------------------------------------------- claim C21
\* the directory of a partition is one a record can be built of
Buildable(node) ==
    /\ node.ident = "ok"
    /\ node.holders \in {"none", "some"}
    /\ node.dir = "ok"

\* the positions of the entries that are partitions a record can be built of
BuiltChildren(node) ==
    SelectSeq([k \in 1..Len(node.entries) |-> k],
              LAMBDA k : /\ node.entries[k].kind = "partition"
                         /\ Buildable(node.entries[k].node))

\* C21: a failure while building one child partition aborts only that
\* child: the parent record is built exactly when its own identifier,
\* holders and partition directory can be read, whatever its children do,
\* and its partition list then holds, in directory order, the children that
\* could be built, each with its own holder flag, the others being left out.
C21_NodeLocalFailure ==
    pc = "s_done" =>
        /\ (built.status = "Ok") = Buildable(sys_node)
        /\ built.status = "Ok" =>
              LET kids == BuiltChildren(sys_node)
              IN  /\ built.dev.has_holders = (sys_node.holders = "some")
                  /\ Len(built.dev.partitions) = Len(kids)
                  /\ \A n \in 1..Len(kids) :
                        /\ built.dev.partitions[n].name = kids[n]
                        /\ built.dev.partitions[n].has_holders =
                              (sys_node.entries[kids[n]].node.holders = "some")
                        /\ built.dev.partitions[n].partitions = <<>>

\* the first partition could not be built, the second could: the parent is
\* built with the second alone
C21_Witness ==
    /\ pc = "s_done"
    /\ built.status = "Ok"
    /\ Len(sys_node.entries) = 2
    /\ sys_node.entries[1].kind = "partition"
    /\ ~Buildable(sys_node.entries[1].node)
    /\ Len(built.dev.partitions) = 1
    /\ built.dev.partitions[1].name = 2


\* ------------------------------------------------------------- claim C22
\* the mounts this program created for which umount was not invoked yet
ActiveMounts ==
    {log[a].path : a \in {k \in Events("mount") : log[k].res = "Ok"}}
        \ {log[c].path : c \in Events("umount")}

\* C22: at every point of from_device_list at most one mount created by
\* this program is mounted and not yet released, and between a successful
\* invocation of the mount utility and the next invocation of it the umount
\* utility has been invoked on the path of the former: a candidate that was
\* mounted and did not resolve is released before the next one is mounted.
C22_OneOwnedMount ==
    LET mounts == Events("mount")
        umounts == Events("umount")
    IN  /\ Cardinality(ActiveMounts) <= 1
        /\ \A a \in mounts, b \in mounts :
              (a < b /\ log[a].res = "Ok") =>
                  \E c \in umounts : /\ a < c
                                     /\ c < b
                                     /\ log[c].path = log[a].path
        /\ (mnt.exists /\ mnt.temp_dir # 0) => ActiveMounts = {mnt.mount_path}

\* a first candidate was mounted by this program, did not resolve and was
\* released, and the mount utility was then invoked for a second candidate
C22_Witness ==
    \E a \in Events("mount"), b \in Events("mount") :
        /\ a < b
        /\ log[a].res = "Ok"
        /\ log[a].dev # log[b].dev
        /\ \E r \in Events("from_local") :
              /\ a < r
              /\ r < b
              /\ log[r].dev = log[a].dev
              /\ log[r].res = "Err"


\* ------------------------------------------------------------- claim C23
\* C23: when no existing mount is found and the creation of the mount-point
\* subdirectory or the mount utility fails, Mount::mount returns an error:
\* no Mount value exists, nothing is mounted, every temporary directory the
\* call created has been removed again, and the umount utility is not
\* invoked for that attempt.
C23_FailedAcquire ==
    pc = "m_failed" =>
        /\ mnt = NoMount
        /\ osMounted = {}
        /\ tmpdirs = {}
        /\ Events("umount") = {}
        /\ \A k \in Events("mount") : log[k].res = "Err"
        /\ \A k \in Events("mkdtemp") :
              \E r \in Events("rmdir") : r > k /\ log[r].path = log[k].path

\* the mount utility ran and failed, and the temporary directory is gone
C23_Witness ==
    /\ pc = "m_failed"
    /\ \E k \in Events("mount") : log[k].res = "Err"
    /\ \E k \in Events("rmdir") : log[k].path = TmpMountPath(1)
    /\ tmpdirs = {}


\* ------------------------------------------------------------- claim C24
\* l is an entry of the label mapping of the resolved configuration
Resolved(l) == \E k \in 1..Len(sconf.labels) : sconf.labels[k] = l

\* C24: in every successfully resolved configuration ontimeout, onerror
\* (when present) and the label named by default_name (when present) are
\* entries of the surviving label mapping, all of whose entries have a Linux
\* kernel file; default_name is the configured default when that names a
\* survivor and absent otherwise; so load_kernel does not reject the
\* ontimeout label before it invokes the load stage.
C24_ReferencesAreSurvivors ==
    (pc = "c_done" /\ sconf.status = "Ok") =>
        /\ \A k \in 1..Len(sconf.labels) : sconf.labels[k].kernel_file = "linux"
        /\ Resolved(sconf.ontimeout)
        /\ sconf.onerror # NoLabel => Resolved(sconf.onerror)
        /\ sconf.default_name # "none" =>
              \E k \in 1..Len(sconf.labels) :
                  sconf.labels[k].name = sconf.default_name
        /\ sconf.default_name =
              (IF conf.default \in SurvivorNames(conf) THEN conf.default ELSE "none")
        /\ ~load_rejects(sconf.ontimeout)

\* the configured default names a label of the file that did not survive:
\* the configuration resolves with default_name absent
C24_Witness ==
    /\ pc = "c_done"
    /\ sconf.status = "Ok"
    /\ conf.default \in {conf.labels[k].name : k \in 1..Len(conf.labels)}
    /\ conf.default \notin SurvivorNames(conf)
    /\ sconf.default_name = "none"
    /\ sconf.onerror # NoLabel

====
